---------------------------- MODULE Spec2Model ----------------------------
(***************************************************************************)
(* State-machine model of SentEval's classifier trainer                    *)
(* (senteval/tools/classifier.py) and of its validation strategies         *)
(* (senteval/tools/validation.py).                                         *)
(*                                                                         *)
(*   Spec / FairSpec : one call of PyTorchClassifier.fit on an MLP         *)
(*   SpecConfig      : construction of a strategy from a configuration     *)
(*                     that may omit optional keys, and of its first       *)
(*                     classifier                                          *)
(*   SpecRun         : run() of InnerKFoldClassifier, KFoldClassifier and  *)
(*                     SplitClassifier                                     *)
(***************************************************************************)
EXTENDS Integers, Sequences, FiniteSets, TLC

(***************************************************************************)
(* Bounds of the model                                                     *)
(***************************************************************************)
MaxEpochCap  == 3   \* max_epoch ranges over -1 .. MaxEpochCap
MaxEpochSize == 2   \* epoch_size ranges over 1 .. MaxEpochSize
MaxTenacity  == 1   \* tenacity ranges over 0 .. MaxTenacity
MaxLenX      == 2   \* len(X) ranges over 1 .. MaxLenX
MaxDevLen    == 1   \* len(validation_data[0]) ranges over 0 .. MaxDevLen
AccLevels    == 1   \* a score is one of the fractions l / AccLevels of the set
SuppliedLen  == 2   \* size of a supplied validation or test set

(***************************************************************************)
(* Program constants                                                       *)
(***************************************************************************)
DefaultNhid      == 0       \* MLP.__init__: nhid default
DefaultTenacity  == 5       \* MLP.__init__: tenacity default
DefaultEpochSize == 4       \* MLP.__init__: epoch_size default
DefaultMaxEpoch  == 200     \* MLP.__init__: max_epoch default
DefaultBatchSize == 64      \* MLP.__init__: batch_size default
DefaultKFold     == 5       \* InnerKFoldClassifier / KFoldClassifier: self.k
FinalSplitPct    == 5       \* validation_split=0.05 of the final retraining

VARIABLES
    \* ---- arguments and hyper-parameters of the fit call
    X,                  \* the examples handed to fit (a set of example ids)
    validation_data,    \* <<>> for None, <<D>> for an explicit held-out set D
    validation_split,   \* <<>> for None, <<p>> for the fraction p/100
    early_stop,
    max_epoch, epoch_size, tenacity,
    \* ---- locals and attributes of fit
    pc,                 \* position in fit
    nepoch, bestaccuracy, stop_train, early_stop_count,
    trainX, devX,       \* result of prepare_split
    accuracy,           \* <<>> before the first score, else <<correct, n>>
    model,              \* self.model : reference into the heap
    bestmodel,          \* <<>> while unbound, else <<reference>>
    heap,               \* heap[r] = number of optimizer steps applied to object r
    ret,                \* <<>> until fit returns, else <<bestaccuracy>>
    \* ---- history (observation only)
    hist,               \* one record per completed evaluation round
    \* ---- a validation strategy
    strategy,           \* the class constructed
    config,             \* the configuration dictionary handed to __init__
    data,               \* the example sets handed to __init__
    self,               \* <<>> before __init__, else <<attributes>>
    mlp,                \* <<>>, else <<attributes of the first classifier>>
    cpc,                \* position in construction
    rpc,                \* position in run()
    frame,              \* the local variables of run()
    result,             \* <<>> until run() returns, else <<tuple returned>>
    fitlog              \* a record of every fit call made by run()

fitVars == <<X, validation_data, validation_split, early_stop, max_epoch,
             epoch_size, tenacity, pc, nepoch, bestaccuracy, stop_train,
             early_stop_count, trainX, devX, accuracy, model, bestmodel,
             heap, ret, hist>>

stratVars == <<strategy, config, data, self, mlp, cpc, rpc, frame, result,
               fitlog>>

vars == <<fitVars, stratVars>>

(***************************************************************************)
(* Python values                                                           *)
(***************************************************************************)
None == <<>>
Some(v) == <<v>>

\* Python truthiness of an optional float: None and 0.0 are falsy.
TruthyFloat(opt) == opt # None /\ opt[1] # 0

\* Python truthiness of an optional tuple (devX, devy): None is falsy, a
\* 2-tuple is truthy whatever it holds.
TruthyTuple(opt) == opt # None

\* Rationals <<num, den>> with den > 0 stand for Python floats num/den.
RatGT(a, b) == a[1] * b[2] > b[1] * a[2]
RatEQ(a, b) == a[1] * b[2] = b[1] * a[2]

\* int(validation_split * len(X)) for the fraction p/100 (truncation).
SplitLen(p, n) == (p * n) \div 100

\* number of mini-batches of range(0, n, batch_size)
NumBatches(n, bs) == (n + bs - 1) \div bs

ExtIds(n) == {100 + i : i \in 1..n}

FitArgs ==
    /\ X \in {1..n : n \in 1..MaxLenX}
    /\ validation_data \in {None} \cup {Some(ExtIds(n)) : n \in 0..MaxDevLen}
    /\ validation_split \in {None, Some(0), Some(50)}
    /\ early_stop \in BOOLEAN
    /\ max_epoch \in -1..MaxEpochCap
    /\ epoch_size \in 1..MaxEpochSize
    /\ tenacity \in 0..MaxTenacity

(***************************************************************************)
(* State after MLP.__init__: a freshly built model, nothing trained.       *)
(***************************************************************************)
FitInit ==
    /\ FitArgs
    /\ pc = "fit"
    /\ nepoch = 0
    /\ bestaccuracy = <<-1, 1>>
    /\ stop_train = FALSE
    /\ early_stop_count = 0
    /\ trainX = {}
    /\ devX = {}
    /\ accuracy = None
    /\ model = 1
    /\ bestmodel = None
    /\ heap = <<0>>
    /\ ret = None
    /\ hist = <<>>

argVars == <<X, validation_data, validation_split, early_stop, max_epoch,
             epoch_size, tenacity>>

(***************************************************************************)
(* prepare_split                                                           *)
(***************************************************************************)
\* a stricter check than the code's: exactly one argument is not None
AssertExactlyOne(vs, vd) == (vs # None) # (vd # None)

\* assert validation_split or validation_data
AssertSplitArgs(vs, vd) == TruthyFloat(vs) \/ TruthyTuple(vd)

\* if validation_data is not None
UseValidationData(vs, vd) == vd # None

\* fit, lines 60-67, when the assertion of prepare_split fails
PrepareSplitFail ==
    /\ pc = "fit"
    /\ UNCHANGED stratVars
    /\ ~AssertSplitArgs(validation_split, validation_data)
    /\ pc' = "AssertionError"
    /\ nepoch' = 0 /\ bestaccuracy' = <<-1, 1>>
    /\ stop_train' = FALSE /\ early_stop_count' = 0
    /\ UNCHANGED <<argVars, trainX, devX, accuracy, model, bestmodel, heap,
                   ret, hist>>

\* fit, lines 60-67, with the explicit held-out pair
PrepareSplitData ==
    /\ pc = "fit"
    /\ UNCHANGED stratVars
    /\ AssertSplitArgs(validation_split, validation_data)
    /\ UseValidationData(validation_split, validation_data)
    /\ trainX' = X
    /\ devX' = validation_data[1]
    /\ pc' = "while"
    /\ nepoch' = 0 /\ bestaccuracy' = <<-1, 1>>
    /\ stop_train' = FALSE /\ early_stop_count' = 0
    /\ UNCHANGED <<argVars, accuracy, model, bestmodel, heap, ret, hist>>

\* fit, lines 60-67, splitting by fraction: the first int(split * N) entries
\* of a random permutation are held out, the rest is trained on.
PrepareSplitFraction ==
    /\ pc = "fit"
    /\ UNCHANGED stratVars
    /\ AssertSplitArgs(validation_split, validation_data)
    /\ ~UseValidationData(validation_split, validation_data)
    /\ \E dev \in SUBSET X :
          /\ Cardinality(dev) = SplitLen(validation_split[1], Cardinality(X))
          /\ devX' = dev
          /\ trainX' = X \ dev
    /\ pc' = "while"
    /\ nepoch' = 0 /\ bestaccuracy' = <<-1, 1>>
    /\ stop_train' = FALSE /\ early_stop_count' = 0
    /\ UNCHANGED <<argVars, accuracy, model, bestmodel, heap, ret, hist>>

(***************************************************************************)
(* the training loop of fit                                                *)
(***************************************************************************)
\* while not stop_train and self.nepoch <= self.max_epoch
LoopCond(stop, n, cap) == ~stop /\ n <= cap

LoopEnter ==
    /\ pc = "while"
    /\ UNCHANGED stratVars
    /\ LoopCond(stop_train, nepoch, max_epoch)
    /\ pc' = "trainepoch"
    /\ UNCHANGED <<argVars, nepoch, bestaccuracy, stop_train,
                   early_stop_count, trainX, devX, accuracy, model,
                   bestmodel, heap, ret, hist>>

LoopExit ==
    /\ pc = "while"
    /\ UNCHANGED stratVars
    /\ ~LoopCond(stop_train, nepoch, max_epoch)
    /\ pc' = "return"
    /\ UNCHANGED <<argVars, nepoch, bestaccuracy, stop_train,
                   early_stop_count, trainX, devX, accuracy, model,
                   bestmodel, heap, ret, hist>>

\* trainepoch: epoch_size passes, one optimizer step per mini-batch, applied
\* in place to the object self.model refers to; then nepoch += epoch_size.
StepsPerCall(n, es) == es * NumBatches(n, DefaultBatchSize)

NextEpoch(n, es) == n + es

TrainEpoch ==
    /\ pc = "trainepoch"
    /\ UNCHANGED stratVars
    /\ heap' = [heap EXCEPT ![model] =
                    @ + StepsPerCall(Cardinality(trainX), epoch_size)]
    /\ nepoch' = NextEpoch(nepoch, epoch_size)
    /\ pc' = "score"
    /\ UNCHANGED <<argVars, bestaccuracy, stop_train, early_stop_count,
                   trainX, devX, accuracy, model, bestmodel, ret, hist>>

\* score: accuracy = 1.0 * correct / len(devX)
ScoreOK ==
    /\ pc = "score"
    /\ UNCHANGED stratVars
    /\ devX # {}
    /\ \E correct \in 0..Cardinality(devX) :
          accuracy' = Some(<<correct, Cardinality(devX)>>)
    /\ pc' = "compare"
    /\ UNCHANGED <<argVars, nepoch, bestaccuracy, stop_train,
                   early_stop_count, trainX, devX, model, bestmodel, heap,
                   ret, hist>>

ScoreDivZero ==
    /\ pc = "score"
    /\ UNCHANGED stratVars
    /\ devX = {}
    /\ pc' = "ZeroDivisionError"
    /\ UNCHANGED <<argVars, nepoch, bestaccuracy, stop_train,
                   early_stop_count, trainX, devX, accuracy, model,
                   bestmodel, heap, ret, hist>>

\* if accuracy > bestaccuracy
Improves(acc, best) == RatGT(acc, best)

\* the slip deepcopy guards against: bestmodel = self.model (an alias)
DeepCopyAlias(h, m) == <<h, m>>

\* copy.deepcopy(self.model): a new object holding the same weights.
\* Yields <<heap after the copy, reference to the copy>>.
DeepCopy(h, m) == <<Append(h, h[m]), Len(h) + 1>>

\* what one evaluation round observed: the accuracy scored and the weights of
\* the live model that were scored
Round(acc, w) == [acc |-> acc, w |-> w]

Improve ==
    /\ pc = "compare"
    /\ UNCHANGED stratVars
    /\ Improves(accuracy[1], bestaccuracy)
    /\ bestaccuracy' = accuracy[1]
    /\ heap' = DeepCopy(heap, model)[1]
    /\ bestmodel' = Some(DeepCopy(heap, model)[2])
    /\ hist' = Append(hist, Round(accuracy[1], heap[model]))
    /\ pc' = "while"
    /\ UNCHANGED <<argVars, nepoch, stop_train, early_stop_count, trainX,
                   devX, accuracy, model, ret>>

\* a plain "else:" in place of "elif early_stop:"
EarlyStopAlways(es) == TRUE

\* elif early_stop
EarlyStopBranch(es) == es

\* if early_stop_count >= self.tenacity: stop_train = True
StopNow(count, ten) == count >= ten

NoImproveEarlyStop ==
    /\ pc = "compare"
    /\ UNCHANGED stratVars
    /\ ~Improves(accuracy[1], bestaccuracy)
    /\ EarlyStopBranch(early_stop)
    /\ stop_train' = IF StopNow(early_stop_count, tenacity)
                     THEN TRUE ELSE stop_train
    /\ early_stop_count' = early_stop_count + 1
    /\ hist' = Append(hist, Round(accuracy[1], heap[model]))
    /\ pc' = "while"
    /\ UNCHANGED <<argVars, nepoch, bestaccuracy, trainX, devX, accuracy,
                   model, bestmodel, heap, ret>>

NoImproveIgnored ==
    /\ pc = "compare"
    /\ UNCHANGED stratVars
    /\ ~Improves(accuracy[1], bestaccuracy)
    /\ ~EarlyStopBranch(early_stop)
    /\ hist' = Append(hist, Round(accuracy[1], heap[model]))
    /\ pc' = "while"
    /\ UNCHANGED <<argVars, nepoch, bestaccuracy, stop_train,
                   early_stop_count, trainX, devX, accuracy, model,
                   bestmodel, heap, ret>>

\* self.model = bestmodel; return bestaccuracy
FitReturn ==
    /\ pc = "return"
    /\ UNCHANGED stratVars
    /\ bestmodel # None
    /\ model' = bestmodel[1]
    /\ ret' = Some(bestaccuracy)
    /\ pc' = "done"
    /\ UNCHANGED <<argVars, nepoch, bestaccuracy, stop_train,
                   early_stop_count, trainX, devX, accuracy, bestmodel,
                   heap, hist>>

\* self.model = bestmodel with bestmodel never assigned (no round was run)
FitUnbound ==
    /\ pc = "return"
    /\ UNCHANGED stratVars
    /\ bestmodel = None
    /\ pc' = "UnboundLocalError"
    /\ UNCHANGED <<argVars, nepoch, bestaccuracy, stop_train,
                   early_stop_count, trainX, devX, accuracy, model,
                   bestmodel, heap, ret, hist>>

FitNext ==
    \/ PrepareSplitFail
    \/ PrepareSplitData
    \/ PrepareSplitFraction
    \/ LoopEnter
    \/ LoopExit
    \/ TrainEpoch
    \/ ScoreOK
    \/ ScoreDivZero
    \/ Improve
    \/ NoImproveEarlyStop
    \/ NoImproveIgnored
    \/ FitReturn
    \/ FitUnbound

(***************************************************************************)
(* Configuration dictionaries and the constructors that read them          *)
(***************************************************************************)
Ok(v) == [tag |-> "ok", val |-> v]
KeyError(key) == [tag |-> "KeyError", key |-> key]

\* "key" in d
Has(d, key) == key \in DOMAIN d

\* default if "key" not in d else d["key"]
GetOr(d, key, default) == IF Has(d, key) THEN d[key] ELSE default

Strategies == {"InnerKFoldClassifier", "KFoldClassifier", "SplitClassifier"}

RequiredKeys == {"nclasses", "seed", "usepytorch", "classifier"}
OptionalKeys == {"kfold", "device", "noreg", "max_iter"}
ClassifierKeys == {"nhid", "optim", "tenacity", "epoch_size", "max_epoch",
                   "dropout", "batch_size"}

\* the value a classifier key has when the caller gives it (each differs
\* from the default of MLP.__init__)
GivenClassifier(key) ==
    CASE key = "nhid"       -> 50
      [] key = "optim"      -> "sgd,lr=0.1"
      [] key = "tenacity"   -> 3
      [] key = "epoch_size" -> 2
      [] key = "max_epoch"  -> 100
      [] key = "dropout"    -> <<1, 10>>
      [] key = "batch_size" -> 128

ClassifierConfig(S) == [key \in S |-> GivenClassifier(key)]

\* a configuration holding the required keys and the optional keys S
Config(S, up, nr, kf, cc) ==
    [key \in RequiredKeys \cup S |->
        CASE key = "nclasses"   -> 2
          [] key = "seed"       -> 1111
          [] key = "usepytorch" -> up
          [] key = "classifier" -> cc
          [] key = "kfold"      -> kf
          [] key = "device"     -> "cuda"
          [] key = "noreg"      -> nr
          [] key = "max_iter"   -> 100]

\* every configuration: any subset of the optional keys, any subset of the
\* classifier keys
AllConfigs ==
    {Config(S, up, TRUE, 2, ClassifierConfig(C)) :
        S \in SUBSET OptionalKeys, up \in BOOLEAN, C \in SUBSET ClassifierKeys}

\* get_classif_name: reads classifier_config['nhid'] without a default
get_classif_name(classifier_config, usepytorch) ==
    IF ~usepytorch THEN Ok(<<"sklearn-LogReg">>)
    ELSE IF ~Has(classifier_config, "nhid") THEN KeyError("nhid")
    ELSE Ok(<<"pytorch-MLP-nhid", classifier_config["nhid"],
              GetOr(classifier_config, "optim", "adam"), "bs",
              GetOr(classifier_config, "batch_size", DefaultBatchSize)>>)

\* InnerKFoldClassifier.__init__: reads config['max_iter'] without a default
InnerKFoldInit(cfg) ==
    IF ~Has(cfg, "max_iter") THEN KeyError("max_iter")
    ELSE LET name == get_classif_name(cfg["classifier"], cfg["usepytorch"])
         IN  IF name.tag = "KeyError" THEN name
             ELSE Ok([nclasses          |-> cfg["nclasses"],
                      seed              |-> cfg["seed"],
                      max_iter          |-> cfg["max_iter"],
                      devresults        |-> <<>>,
                      testresults       |-> <<>>,
                      usepytorch        |-> cfg["usepytorch"],
                      classifier_config |-> cfg["classifier"],
                      modelname         |-> name.val,
                      k                 |-> GetOr(cfg, "kfold", DefaultKFold)])

\* KFoldClassifier.__init__
KFoldInit(cfg) ==
    LET name == get_classif_name(cfg["classifier"], cfg["usepytorch"])
    IN  IF name.tag = "KeyError" THEN name
        ELSE Ok([nclasses          |-> cfg["nclasses"],
                 seed              |-> cfg["seed"],
                 usepytorch        |-> cfg["usepytorch"],
                 classifier_config |-> cfg["classifier"],
                 modelname         |-> name.val,
                 k                 |-> GetOr(cfg, "kfold", DefaultKFold)])

\* SplitClassifier.__init__
SplitInit(cfg) ==
    LET name == get_classif_name(cfg["classifier"], cfg["usepytorch"])
    IN  IF name.tag = "KeyError" THEN name
        ELSE Ok([nclasses          |-> cfg["nclasses"],
                 seed              |-> cfg["seed"],
                 usepytorch        |-> cfg["usepytorch"],
                 classifier_config |-> cfg["classifier"],
                 device            |-> GetOr(cfg, "device", "cpu"),
                 modelname         |-> name.val,
                 noreg             |-> GetOr(cfg, "noreg", FALSE),
                 config            |-> cfg])

StrategyInit(s, cfg) ==
    CASE s = "InnerKFoldClassifier" -> InnerKFoldInit(cfg)
      [] s = "KFoldClassifier"      -> KFoldInit(cfg)
      [] s = "SplitClassifier"      -> SplitInit(cfg)

\* MLP.__init__: every classifier key has a default
MLPInit(params, l2reg, device) ==
    [nhid       |-> GetOr(params, "nhid", DefaultNhid),
     optim      |-> GetOr(params, "optim", "adam"),
     tenacity   |-> GetOr(params, "tenacity", DefaultTenacity),
     epoch_size |-> GetOr(params, "epoch_size", DefaultEpochSize),
     max_epoch  |-> GetOr(params, "max_epoch", DefaultMaxEpoch),
     dropout    |-> GetOr(params, "dropout", <<0, 1>>),
     batch_size |-> GetOr(params, "batch_size", DefaultBatchSize),
     l2reg      |-> l2reg,
     device     |-> device]

(***************************************************************************)
(* Candidate lists of regularization strengths                             *)
(***************************************************************************)
\* b ** e
Pow(b, e) == [base |-> b, exp |-> e]

\* range(a, b)
RangeSeq(a, b) == [i \in 1..(b - a) |-> a + i - 1]

\* [b**t for t in r]
PowList(b, r) == [i \in 1..Len(r) |-> Pow(b, r[i])]

\* InnerKFoldClassifier.run
InnerRegs(usepytorch) ==
    IF usepytorch THEN PowList(10, RangeSeq(-5, -1))
    ELSE PowList(2, RangeSeq(-2, 4))

\* KFoldClassifier.run
KFoldRegs(usepytorch) ==
    IF usepytorch THEN PowList(10, RangeSeq(-5, -1))
    ELSE PowList(2, RangeSeq(-1, 6))

\* a run that keeps the grid and adds the extreme value to it
SplitRegsAppend(usepytorch, noreg) ==
    LET grid == IF usepytorch THEN PowList(10, RangeSeq(-5, -1))
                ELSE PowList(2, RangeSeq(-2, 4))
    IN  IF noreg
        THEN Append(grid, IF usepytorch THEN Pow(10, -9) ELSE Pow(10, 9))
        ELSE grid

\* SplitClassifier.run: 1e-9 / 1e9 alone when self.noreg
SplitRegs(usepytorch, noreg) ==
    IF noreg THEN <<IF usepytorch THEN Pow(10, -9) ELSE Pow(10, 9)>>
    ELSE IF usepytorch THEN PowList(10, RangeSeq(-5, -1))
    ELSE PowList(2, RangeSeq(-2, 4))

(***************************************************************************)
(* Construction of a strategy and of the first classifier run() builds     *)
(***************************************************************************)
Ids(base, n) == {base + i : i \in 1..n}

\* the example sets of a strategy over n training examples
DataOf(s, n) ==
    [train |-> 1..n,
     valid |-> IF s = "SplitClassifier" THEN Ids(200, SuppliedLen) ELSE {},
     test  |-> IF s = "InnerKFoldClassifier" THEN {}
               ELSE Ids(100, SuppliedLen)]

EmptyFrame ==
    [regs |-> <<>>, scores |-> <<>>, ri |-> 0, fi |-> 0,
     scanscores |-> <<>>, count |-> 0,
     folds |-> <<>>, innerfolds |-> <<>>,
     X_train |-> None, X_test |-> None, X_in_test |-> None, X_val |-> None,
     clf |-> None, optreg |-> None, devaccuracy |-> None,
     testaccuracy |-> None, yhat |-> None]

FitIdle ==
    /\ X = {} /\ validation_data = None /\ validation_split = None
    /\ early_stop = FALSE /\ max_epoch = 0 /\ epoch_size = 0 /\ tenacity = 0
    /\ pc = "idle" /\ nepoch = 0 /\ bestaccuracy = <<-1, 1>>
    /\ stop_train = FALSE /\ early_stop_count = 0
    /\ trainX = {} /\ devX = {} /\ accuracy = None
    /\ model = 1 /\ bestmodel = None /\ heap = <<0>>
    /\ ret = None /\ hist = <<>>

StratIdle ==
    /\ strategy = "none" /\ config = None /\ data = None
    /\ self = None /\ mlp = None
    /\ cpc = "idle" /\ rpc = "idle"
    /\ frame = EmptyFrame /\ result = None /\ fitlog = {}

ConfigInit ==
    /\ FitIdle
    /\ strategy \in Strategies
    /\ config \in AllConfigs
    /\ data = DataOf(strategy, 4)
    /\ self = None /\ mlp = None
    /\ cpc = "new" /\ rpc = "idle"
    /\ frame = EmptyFrame /\ result = None /\ fitlog = {}

\* InnerKFoldClassifier.__init__ returns
NewInnerKFold ==
    /\ cpc = "new"
    /\ strategy = "InnerKFoldClassifier"
    /\ InnerKFoldInit(config).tag = "ok"
    /\ self' = Some(InnerKFoldInit(config).val)
    /\ cpc' = "constructed"
    /\ UNCHANGED <<fitVars, strategy, config, data, mlp, rpc, frame, result,
                   fitlog>>

\* InnerKFoldClassifier.__init__ raises KeyError
NewInnerKFoldKeyError ==
    /\ cpc = "new"
    /\ strategy = "InnerKFoldClassifier"
    /\ InnerKFoldInit(config).tag = "KeyError"
    /\ cpc' = "KeyError"
    /\ UNCHANGED <<fitVars, strategy, config, data, self, mlp, rpc, frame,
                   result, fitlog>>

\* KFoldClassifier.__init__ returns
NewKFold ==
    /\ cpc = "new"
    /\ strategy = "KFoldClassifier"
    /\ KFoldInit(config).tag = "ok"
    /\ self' = Some(KFoldInit(config).val)
    /\ cpc' = "constructed"
    /\ UNCHANGED <<fitVars, strategy, config, data, mlp, rpc, frame, result,
                   fitlog>>

\* KFoldClassifier.__init__ raises KeyError
NewKFoldKeyError ==
    /\ cpc = "new"
    /\ strategy = "KFoldClassifier"
    /\ KFoldInit(config).tag = "KeyError"
    /\ cpc' = "KeyError"
    /\ UNCHANGED <<fitVars, strategy, config, data, self, mlp, rpc, frame,
                   result, fitlog>>

\* SplitClassifier.__init__ returns
NewSplit ==
    /\ cpc = "new"
    /\ strategy = "SplitClassifier"
    /\ SplitInit(config).tag = "ok"
    /\ self' = Some(SplitInit(config).val)
    /\ cpc' = "constructed"
    /\ UNCHANGED <<fitVars, strategy, config, data, mlp, rpc, frame, result,
                   fitlog>>

\* SplitClassifier.__init__ raises KeyError
NewSplitKeyError ==
    /\ cpc = "new"
    /\ strategy = "SplitClassifier"
    /\ SplitInit(config).tag = "KeyError"
    /\ cpc' = "KeyError"
    /\ UNCHANGED <<fitVars, strategy, config, data, self, mlp, rpc, frame,
                   result, fitlog>>

\* the regularization candidates of the strategy constructed
RegsOf(s, attrs) ==
    CASE s = "InnerKFoldClassifier" -> InnerRegs(attrs.usepytorch)
      [] s = "KFoldClassifier"      -> KFoldRegs(attrs.usepytorch)
      [] s = "SplitClassifier"      -> SplitRegs(attrs.usepytorch, attrs.noreg)

\* device handed to MLP: SplitClassifier passes self.device, the others none
DeviceOf(s, attrs) == IF s = "SplitClassifier" THEN attrs.device ELSE "cpu"

\* run() builds its first classifier: MLP(self.classifier_config, ...)
BuildMLP ==
    /\ cpc = "constructed"
    /\ self[1].usepytorch
    /\ mlp' = Some(MLPInit(self[1].classifier_config,
                           RegsOf(strategy, self[1])[1],
                           DeviceOf(strategy, self[1])))
    /\ cpc' = "built"
    /\ UNCHANGED <<fitVars, strategy, config, data, self, rpc, frame, result,
                   fitlog>>

\* run() builds its first classifier: LogisticRegression(C=reg, ...)
BuildLogReg ==
    /\ cpc = "constructed"
    /\ ~self[1].usepytorch
    /\ mlp' = Some([C |-> RegsOf(strategy, self[1])[1],
                    random_state |-> self[1].seed])
    /\ cpc' = "built"
    /\ UNCHANGED <<fitVars, strategy, config, data, self, rpc, frame, result,
                   fitlog>>

ConfigNext ==
    \/ NewInnerKFold
    \/ NewInnerKFoldKeyError
    \/ NewKFold
    \/ NewKFoldKeyError
    \/ NewSplit
    \/ NewSplitKeyError
    \/ BuildMLP
    \/ BuildLogReg

SpecConfig == ConfigInit /\ [][ConfigNext]_vars

(***************************************************************************)
(* C8: constructing a strategy, and the classifier it builds, from a       *)
(* configuration that omits optional keys never ends in a missing-key      *)
(* error, and each absent key takes its default.                           *)
(***************************************************************************)
C8_NoMissingKeyError ==
    /\ cpc # "KeyError"
    /\ (cpc = "built" /\ self[1].usepytorch) =>
          \A key \in ClassifierKeys \ DOMAIN config["classifier"] :
              mlp[1][key] = MLPInit(<<>>, 0, "cpu")[key]

\* what the code does instead: the error is raised exactly when max_iter is
\* absent (InnerKFoldClassifier) or nhid is absent (usepytorch)
C8_CodeKeyErrors ==
    cpc # "new" =>
        (cpc = "KeyError" <=>
            \/ strategy = "InnerKFoldClassifier" /\ ~Has(config, "max_iter")
            \/ config["usepytorch"] /\ ~Has(config["classifier"], "nhid"))

(***************************************************************************)
(* Folds, scores and selection                                             *)
(***************************************************************************)
\* position of x in S, counted from 1
Rank(S, x) == Cardinality({y \in S : y <= x})

\* StratifiedKFold(n_splits=kk).split: the f-th held-out fold of S.  The
\* folds partition S into kk parts whose sizes differ by at most one; the
\* fixed random_state makes every call on the same S yield the same folds.
TestFold(S, kk, f) == {x \in S : (Rank(S, x) - 1) % kk = f - 1}

\* list(skf.split(S, y)): the held-out folds, in the order they are yielded
Folds(S, kk) == [f \in 1..kk |-> TestFold(S, kk, f)]

\* a split whose training part is the whole set
TrainPartAll(S, heldout) == S

\* X[train_idx]: split yields as train_idx the indices outside test_idx
TrainPart(S, heldout) == S \ heldout

\* the numbers of correct predictions the model lets a score take on n
\* examples
Levels(n) == {(l * n) \div AccLevels : l \in 0..AccLevels}

\* clf.score(X, y): the fraction of X predicted correctly
Score(S) == {<<c, Cardinality(S)>> : c \in Levels(Cardinality(S))}

RECURSIVE RatSum(_)
RatSum(s) ==
    IF s = <<>> THEN <<0, 1>>
    ELSE LET r == RatSum(Tail(s))
         IN  <<s[1][1] * r[2] + r[1] * s[1][2], s[1][2] * r[2]>>

\* np.mean of a list of fractions
Mean(s) == <<RatSum(s)[1], RatSum(s)[2] * Len(s)>>

\* round(a / b) to an integer; on an exact tie the float that stands for
\* a / b decides, so either neighbour may come out
RoundDiv(a, b) ==
    LET q == a \div b
        rem == a % b
    IN  IF 2 * rem < b THEN {q}
        ELSE IF 2 * rem > b THEN {q + 1}
        ELSE {q, q + 1}

\* round(100 * r, 2), in hundredths of a percent
Round2Pct(r) == RoundDiv(10000 * r[1], r[2])

RECURSIVE SumSeq(_)
SumSeq(s) == IF s = <<>> THEN 0 ELSE s[1] + SumSeq(Tail(s))

\* round(np.mean(s), 2) of a list of percentages held in hundredths
MeanRound2(s) == RoundDiv(SumSeq(s), Len(s))

\* np.max
MaxOf(s) == CHOOSE v \in {s[i] : i \in 1..Len(s)} :
                \A i \in 1..Len(s) : s[i] <= v

\* an argmax that keeps the last of several maxima
ArgMaxLast(s) ==
    CHOOSE i \in 1..Len(s) :
        /\ \A j \in 1..Len(s) : s[j] <= s[i]
        /\ \A j \in (i + 1)..Len(s) : s[j] < s[i]

\* np.argmax (counted from 1): the first index holding the maximum
ArgMax(s) ==
    CHOOSE i \in 1..Len(s) :
        /\ \A j \in 1..Len(s) : s[j] <= s[i]
        /\ \A j \in 1..(i - 1) : s[j] < s[i]

(***************************************************************************)
(* Classifiers as run() sees them                                          *)
(***************************************************************************)
\* MLP(..., l2reg=reg).fit(X, y, validation_data / validation_split)
MLPFit(reg, Xs, vd, vs) ==
    [kind |-> "MLP", l2reg |-> reg, X |-> Xs,
     validation_data |-> vd, validation_split |-> vs]

\* LogisticRegression(C=reg).fit(X, y)
LogRegFit(reg, Xs) ==
    [kind |-> "LogReg", l2reg |-> reg, X |-> Xs,
     validation_data |-> None, validation_split |-> None]

\* what a fit call was handed
FitArgsOf(c) ==
    [X |-> c.X, validation_data |-> c.validation_data,
     validation_split |-> c.validation_split]

\* the test subset: X_test of the current outer fold in
\* InnerKFoldClassifier.run, the supplied test set in the other two
TestSubset ==
    IF strategy = "InnerKFoldClassifier" THEN frame.X_test[1] ELSE data.test

\* the record kept of a fit call: its arguments, the examples the fitted
\* classifier is scored on for the score table, and the test subset at the
\* time of the call
Logged(c, scored) ==
    [fit |-> FitArgsOf(c), scored |-> scored, test |-> TestSubset]

\* MLP.fit on a fraction that holds out nothing: score divides by zero
FitDivZero(c) ==
    /\ c.kind = "MLP"
    /\ c.validation_data = None
    /\ SplitLen(c.validation_split[1], Cardinality(c.X)) = 0

\* clf.predict(X): one label per example of X (the labels are not modelled)
Predict(c, Xs) == Xs

\* the values config['kfold'] is given
KFoldChoices == {2}

\* the numbers of training examples: only the gradient-trained classifier
\* reads the size (its final retraining holds out int(0.05 * N) examples),
\* so the closed-form one is run on the small set alone
TrainSizes(usepytorch) == IF usepytorch THEN {4, 40} ELSE {4}

\* the configurations run() is explored under: every key given, but for
\* noreg, which SplitClassifier also sees absent
RunConfigs(s) ==
    {Config(S, up, nr, kf, ClassifierConfig(ClassifierKeys)) :
        S \in (IF s = "SplitClassifier"
               THEN {OptionalKeys, OptionalKeys \ {"noreg"}}
               ELSE {OptionalKeys}),
        up \in BOOLEAN,
        nr \in (IF s = "SplitClassifier" THEN BOOLEAN ELSE {FALSE}),
        kf \in KFoldChoices}

RunInit ==
    /\ FitIdle
    /\ strategy \in Strategies
    /\ config \in RunConfigs(strategy)
    /\ \E n \in TrainSizes(config["usepytorch"]) :
          data = DataOf(strategy, n)
    /\ self = Some(StrategyInit(strategy, config).val)
    /\ mlp = None
    /\ cpc = "constructed" /\ rpc = "run"
    /\ frame = EmptyFrame /\ result = None /\ fitlog = {}

fixedVars == <<fitVars, strategy, config, data, mlp, cpc>>

(***************************************************************************)
(* InnerKFoldClassifier.run                                                *)
(***************************************************************************)
\* lines 61-69
IK_Start ==
    /\ rpc = "run" /\ strategy = "InnerKFoldClassifier"
    /\ frame' = [frame EXCEPT !.regs = InnerRegs(self[1].usepytorch),
                              !.folds = Folds(data.train, self[1].k),
                              !.count = 0]
    /\ rpc' = "outer"
    /\ UNCHANGED <<fixedVars, self, result, fitlog>>

\* lines 70-74: the next outer fold
IK_OuterFold ==
    /\ rpc = "outer" /\ strategy = "InnerKFoldClassifier"
    /\ frame.count < self[1].k
    /\ LET test == frame.folds[frame.count + 1]
       IN  frame' = [frame EXCEPT !.count = @ + 1,
                                  !.X_train =
                                      Some(TrainPart(data.train, test)),
                                  !.X_test = Some(test),
                                  !.innerfolds =
                                      Folds(TrainPart(data.train, test),
                                            self[1].k),
                                  !.scores = <<>>,
                                  !.ri = 1, !.fi = 1, !.scanscores = <<>>]
    /\ rpc' = "inner"
    /\ UNCHANGED <<fixedVars, self, result, fitlog>>

\* lines 77-92: one inner fold of one candidate
IK_InnerFold ==
    /\ rpc = "inner" /\ strategy = "InnerKFoldClassifier"
    /\ frame.ri <= Len(frame.regs) /\ frame.fi <= self[1].k
    /\ LET X_in_test == frame.innerfolds[frame.fi]
           X_in_train == TrainPart(frame.X_train[1], X_in_test)
           c == IF self[1].usepytorch
                THEN MLPFit(frame.regs[frame.ri], X_in_train,
                            Some(X_in_test), None)
                ELSE LogRegFit(frame.regs[frame.ri], X_in_train)
       IN  /\ fitlog' = fitlog \cup {Logged(c, X_in_test)}
           /\ \E sc \in Score(X_in_test) :
                 frame' = [frame EXCEPT !.X_in_test = Some(X_in_test),
                                        !.clf = Some(c),
                                        !.scanscores = Append(@, sc),
                                        !.fi = @ + 1]
    /\ UNCHANGED <<fixedVars, self, result, rpc>>

\* line 93, and line 76 of the next candidate
IK_EndReg ==
    /\ rpc = "inner" /\ strategy = "InnerKFoldClassifier"
    /\ frame.ri <= Len(frame.regs) /\ frame.fi > self[1].k
    /\ \E v \in Round2Pct(Mean(frame.scanscores)) :
          frame' = [frame EXCEPT !.scores = Append(@, v),
                                 !.ri = @ + 1, !.fi = 1,
                                 !.scanscores = <<>>]
    /\ UNCHANGED <<fixedVars, self, result, rpc, fitlog>>

\* lines 94-97
IK_Select ==
    /\ rpc = "inner" /\ strategy = "InnerKFoldClassifier"
    /\ frame.ri > Len(frame.regs)
    /\ frame' = [frame EXCEPT
                    !.optreg = Some(frame.regs[ArgMax(frame.scores)])]
    /\ self' = Some([self[1] EXCEPT
                        !.devresults = Append(@, MaxOf(frame.scores))])
    /\ rpc' = "evaluate"
    /\ UNCHANGED <<fixedVars, result, fitlog>>

\* lines 99-108, 113-114: retrain on the outer-train part, score the outer
\* test fold
IK_EvalTorch ==
    /\ rpc = "evaluate" /\ strategy = "InnerKFoldClassifier"
    /\ self[1].usepytorch
    /\ LET c == MLPFit(frame.optreg[1], frame.X_train[1], None,
                       Some(FinalSplitPct))
       IN  /\ ~FitDivZero(c)
           /\ fitlog' = fitlog \cup {Logged(c, {})}
           /\ \E sc \in Score(frame.X_test[1]) :
              \E v \in Round2Pct(sc) :
                 /\ frame' = [frame EXCEPT !.clf = Some(c)]
                 /\ self' = Some([self[1] EXCEPT
                                     !.testresults = Append(@, v)])
    /\ rpc' = "outer"
    /\ UNCHANGED <<fixedVars, result>>

\* line 105 on an outer-train part too small for a 5% hold-out
IK_EvalTorchDivZero ==
    /\ rpc = "evaluate" /\ strategy = "InnerKFoldClassifier"
    /\ self[1].usepytorch
    /\ LET c == MLPFit(frame.optreg[1], frame.X_train[1], None,
                       Some(FinalSplitPct))
       IN  /\ FitDivZero(c)
           /\ fitlog' = fitlog \cup {Logged(c, {})}
           /\ frame' = [frame EXCEPT !.clf = Some(c)]
    /\ rpc' = "ZeroDivisionError"
    /\ UNCHANGED <<fixedVars, self, result>>

\* lines 109-114
IK_EvalSklearn ==
    /\ rpc = "evaluate" /\ strategy = "InnerKFoldClassifier"
    /\ ~self[1].usepytorch
    /\ LET c == LogRegFit(frame.optreg[1], frame.X_train[1])
       IN  /\ fitlog' = fitlog \cup {Logged(c, {})}
           /\ \E sc \in Score(frame.X_test[1]) :
              \E v \in Round2Pct(sc) :
                 /\ frame' = [frame EXCEPT !.clf = Some(c)]
                 /\ self' = Some([self[1] EXCEPT
                                     !.testresults = Append(@, v)])
    /\ rpc' = "outer"
    /\ UNCHANGED <<fixedVars, result>>

\* lines 116-118
IK_Return ==
    /\ rpc = "outer" /\ strategy = "InnerKFoldClassifier"
    /\ frame.count >= self[1].k
    /\ \E d \in MeanRound2(self[1].devresults) :
       \E t \in MeanRound2(self[1].testresults) :
          result' = Some(<<d, t>>)
    /\ frame' = EmptyFrame
    /\ rpc' = "done"
    /\ UNCHANGED <<fixedVars, self, fitlog>>

(***************************************************************************)
(* KFoldClassifier.run                                                     *)
(***************************************************************************)
\* lines 139-148
KF_Start ==
    /\ rpc = "run" /\ strategy = "KFoldClassifier"
    /\ frame' = [frame EXCEPT !.regs = KFoldRegs(self[1].usepytorch),
                              !.folds = Folds(data.train, self[1].k),
                              !.scores = <<>>,
                              !.ri = 1, !.fi = 1, !.scanscores = <<>>]
    /\ rpc' = "scan"
    /\ UNCHANGED <<fixedVars, self, result, fitlog>>

\* lines 149-168: one fold of one candidate
KF_Fold ==
    /\ rpc = "scan" /\ strategy = "KFoldClassifier"
    /\ frame.ri <= Len(frame.regs) /\ frame.fi <= self[1].k
    /\ LET test == frame.folds[frame.fi]
           train == TrainPart(data.train, test)
           c == IF self[1].usepytorch
                THEN MLPFit(frame.regs[frame.ri], train, Some(test), None)
                ELSE LogRegFit(frame.regs[frame.ri], train)
       IN  /\ fitlog' = fitlog \cup {Logged(c, test)}
           /\ \E sc \in Score(test) :
                 frame' = [frame EXCEPT !.X_train = Some(train),
                                        !.X_test = Some(test),
                                        !.clf = Some(c),
                                        !.scanscores = Append(@, sc),
                                        !.fi = @ + 1]
    /\ UNCHANGED <<fixedVars, self, result, rpc>>

\* line 170, and line 148 of the next candidate
KF_EndReg ==
    /\ rpc = "scan" /\ strategy = "KFoldClassifier"
    /\ frame.ri <= Len(frame.regs) /\ frame.fi > self[1].k
    /\ \E v \in Round2Pct(Mean(frame.scanscores)) :
          frame' = [frame EXCEPT !.scores = Append(@, v),
                                 !.ri = @ + 1, !.fi = 1,
                                 !.scanscores = <<>>]
    /\ UNCHANGED <<fixedVars, self, result, rpc, fitlog>>

\* lines 173-178
KF_Select ==
    /\ rpc = "scan" /\ strategy = "KFoldClassifier"
    /\ frame.ri > Len(frame.regs)
    /\ frame' = [frame EXCEPT
                    !.optreg = Some(frame.regs[ArgMax(frame.scores)]),
                    !.devaccuracy = Some(MaxOf(frame.scores))]
    /\ rpc' = "evaluate"
    /\ UNCHANGED <<fixedVars, self, result, fitlog>>

\* lines 181-191, 197-198: X_test is rebound to the supplied test set
KF_EvalTorch ==
    /\ rpc = "evaluate" /\ strategy = "KFoldClassifier"
    /\ self[1].usepytorch
    /\ LET c == MLPFit(frame.optreg[1], data.train, None,
                       Some(FinalSplitPct))
       IN  /\ ~FitDivZero(c)
           /\ fitlog' = fitlog \cup {Logged(c, {})}
           /\ \E sc \in Score(data.test) :
              \E v \in Round2Pct(sc) :
                 frame' = [frame EXCEPT !.clf = Some(c),
                                        !.X_train = Some(data.train),
                                        !.X_test = Some(data.test),
                                        !.testaccuracy = Some(v),
                                        !.yhat = Some(Predict(c, data.test))]
    /\ rpc' = "return"
    /\ UNCHANGED <<fixedVars, self, result>>

\* line 187 on a training set too small for a 5% hold-out
KF_EvalTorchDivZero ==
    /\ rpc = "evaluate" /\ strategy = "KFoldClassifier"
    /\ self[1].usepytorch
    /\ LET c == MLPFit(frame.optreg[1], data.train, None,
                       Some(FinalSplitPct))
       IN  /\ FitDivZero(c)
           /\ fitlog' = fitlog \cup {Logged(c, {})}
           /\ frame' = [frame EXCEPT !.clf = Some(c),
                                     !.X_train = Some(data.train)]
    /\ rpc' = "ZeroDivisionError"
    /\ UNCHANGED <<fixedVars, self, result>>

\* lines 192-198: X_test is not assigned in this branch, so predict is
\* given what the cross-validation loop left in it
KF_EvalSklearn ==
    /\ rpc = "evaluate" /\ strategy = "KFoldClassifier"
    /\ ~self[1].usepytorch
    /\ LET c == LogRegFit(frame.optreg[1], data.train)
       IN  /\ fitlog' = fitlog \cup {Logged(c, {})}
           /\ \E sc \in Score(data.test) :
              \E v \in Round2Pct(sc) :
                 frame' = [frame EXCEPT
                              !.clf = Some(c),
                              !.testaccuracy = Some(v),
                              !.yhat = Some(Predict(c, frame.X_test[1]))]
    /\ rpc' = "return"
    /\ UNCHANGED <<fixedVars, self, result>>

\* line 200
KF_Return ==
    /\ rpc = "return" /\ strategy = "KFoldClassifier"
    /\ result' = Some(<<frame.devaccuracy[1], frame.testaccuracy[1],
                        frame.yhat[1]>>)
    /\ frame' = EmptyFrame
    /\ rpc' = "done"
    /\ UNCHANGED <<fixedVars, self, fitlog>>

(***************************************************************************)
(* SplitClassifier.run                                                     *)
(***************************************************************************)
\* lines 221-227
SP_Start ==
    /\ rpc = "run" /\ strategy = "SplitClassifier"
    /\ frame' = [frame EXCEPT
                    !.regs = SplitRegs(self[1].usepytorch, self[1].noreg),
                    !.scores = <<>>, !.ri = 1]
    /\ rpc' = "scan"
    /\ UNCHANGED <<fixedVars, self, result, fitlog>>

\* lines 229-240, 246-247: one candidate, gradient-trained
SP_CandidateTorch ==
    /\ rpc = "scan" /\ strategy = "SplitClassifier"
    /\ frame.ri <= Len(frame.regs)
    /\ self[1].usepytorch
    /\ LET c == MLPFit(frame.regs[frame.ri], data.train, Some(data.valid),
                       None)
       IN  /\ fitlog' = fitlog \cup {Logged(c, data.valid)}
           /\ \E sc \in Score(data.valid) :
              \E v \in Round2Pct(sc) :
                 frame' = [frame EXCEPT !.clf = Some(c),
                                        !.X_train = Some(data.train),
                                        !.X_val = Some(data.valid),
                                        !.scores = Append(@, v),
                                        !.ri = @ + 1]
    /\ UNCHANGED <<fixedVars, self, result, rpc>>

\* lines 242-247: one candidate, closed-form
SP_CandidateSklearn ==
    /\ rpc = "scan" /\ strategy = "SplitClassifier"
    /\ frame.ri <= Len(frame.regs)
    /\ ~self[1].usepytorch
    /\ LET c == LogRegFit(frame.regs[frame.ri], data.train)
       IN  /\ fitlog' = fitlog \cup {Logged(c, data.valid)}
           /\ \E sc \in Score(data.valid) :
              \E v \in Round2Pct(sc) :
                 frame' = [frame EXCEPT !.clf = Some(c),
                                        !.X_val = Some(data.valid),
                                        !.scores = Append(@, v),
                                        !.ri = @ + 1]
    /\ UNCHANGED <<fixedVars, self, result, rpc>>

\* lines 248-253
SP_Select ==
    /\ rpc = "scan" /\ strategy = "SplitClassifier"
    /\ frame.ri > Len(frame.regs)
    /\ frame' = [frame EXCEPT
                    !.optreg = Some(frame.regs[ArgMax(frame.scores)]),
                    !.devaccuracy = Some(MaxOf(frame.scores))]
    /\ rpc' = "evaluate"
    /\ UNCHANGED <<fixedVars, self, result, fitlog>>

\* lines 256-270, 277-278
SP_EvalTorch ==
    /\ rpc = "evaluate" /\ strategy = "SplitClassifier"
    /\ self[1].usepytorch
    /\ LET c == MLPFit(frame.optreg[1], data.train, Some(data.valid), None)
       IN  /\ fitlog' = fitlog \cup {Logged(c, {})}
           /\ \E sc \in Score(data.test) :
              \E v \in Round2Pct(sc) :
                 frame' = [frame EXCEPT !.clf = Some(c),
                                        !.X_train = Some(data.train),
                                        !.X_val = Some(data.valid),
                                        !.X_test = Some(data.test),
                                        !.testaccuracy = Some(v)]
    /\ rpc' = "return"
    /\ UNCHANGED <<fixedVars, self, result>>

\* lines 271-278
SP_EvalSklearn ==
    /\ rpc = "evaluate" /\ strategy = "SplitClassifier"
    /\ ~self[1].usepytorch
    /\ LET c == LogRegFit(frame.optreg[1], data.train)
       IN  /\ fitlog' = fitlog \cup {Logged(c, {})}
           /\ \E sc \in Score(data.test) :
              \E v \in Round2Pct(sc) :
                 frame' = [frame EXCEPT !.clf = Some(c),
                                        !.X_test = Some(data.test),
                                        !.testaccuracy = Some(v)]
    /\ rpc' = "return"
    /\ UNCHANGED <<fixedVars, self, result>>

\* line 279
SP_Return ==
    /\ rpc = "return" /\ strategy = "SplitClassifier"
    /\ result' = Some(<<frame.devaccuracy[1], frame.testaccuracy[1]>>)
    /\ frame' = EmptyFrame
    /\ rpc' = "done"
    /\ UNCHANGED <<fixedVars, self, fitlog>>

RunNext ==
    \/ IK_Start
    \/ IK_OuterFold
    \/ IK_InnerFold
    \/ IK_EndReg
    \/ IK_Select
    \/ IK_EvalTorch
    \/ IK_EvalTorchDivZero
    \/ IK_EvalSklearn
    \/ IK_Return
    \/ KF_Start
    \/ KF_Fold
    \/ KF_EndReg
    \/ KF_Select
    \/ KF_EvalTorch
    \/ KF_EvalTorchDivZero
    \/ KF_EvalSklearn
    \/ KF_Return
    \/ SP_Start
    \/ SP_CandidateTorch
    \/ SP_CandidateSklearn
    \/ SP_Select
    \/ SP_EvalTorch
    \/ SP_EvalSklearn
    \/ SP_Return

SpecRun == RunInit /\ [][RunNext]_vars

(***************************************************************************)
(* C6: KFoldClassifier.run, with either classifier, retrains the winning   *)
(* candidate on the full training set and returns as third element the     *)
(* predicted labels of exactly the examples of the supplied test set.      *)
(***************************************************************************)
C6_PredictsTestSet ==
    strategy = "KFoldClassifier" =>
        /\ rpc = "return" =>
              /\ frame.clf[1].X = data.train
              /\ frame.clf[1].l2reg = frame.optreg[1]
              /\ frame.yhat[1] = data.test
        /\ rpc = "done" => result[1][3] = data.test

\* what the code does instead: the closed-form branch predicts the last
\* cross-validation fold of the training set
C6_CodePredicts ==
    (strategy = "KFoldClassifier" /\ rpc = "done") =>
        result[1][3] = (IF self[1].usepytorch THEN data.test
                        ELSE TestFold(data.train, self[1].k, self[1].k))

(***************************************************************************)
(* C7: in all three strategies the regularization strength chosen for the  *)
(* final retraining is a candidate whose entry of the score table is       *)
(* maximal, no earlier candidate reaches that score, and the classifier    *)
(* retrained is built with it.                                             *)
(***************************************************************************)
Retrained ==
    \/ rpc = "return"
    \/ rpc = "outer" /\ frame.count >= 1

C7_FirstMaxSelected ==
    /\ rpc = "evaluate" =>
          /\ Len(frame.scores) = Len(frame.regs)
          /\ \E i \in 1..Len(frame.regs) :
                /\ frame.optreg = Some(frame.regs[i])
                /\ \A j \in 1..Len(frame.scores) :
                      frame.scores[j] <= frame.scores[i]
                /\ \A j \in 1..(i - 1) : frame.scores[j] < frame.scores[i]
    /\ Retrained => frame.clf[1].l2reg = frame.optreg[1]

\* a table whose maximum is shared by two candidates, the first of which is
\* not the head of the list
C7_Witness ==
    /\ rpc = "evaluate"
    /\ \E i, j \in 1..Len(frame.scores) :
          /\ 1 < i /\ i < j
          /\ frame.scores[i] = frame.scores[j]
          /\ frame.scores[1] < frame.scores[i]
          /\ \A m \in 1..Len(frame.scores) :
                frame.scores[m] <= frame.scores[i]
          /\ frame.optreg = Some(frame.regs[i])

(***************************************************************************)
(* C10: SplitClassifier.run with noreg enabled evaluates exactly one       *)
(* candidate, 1e-9 for the gradient-trained classifier and 1e9 for the     *)
(* closed-form one, and retrains with it.                                  *)
(***************************************************************************)
C10_NoregSingleCandidate ==
    (strategy = "SplitClassifier" /\ self[1].noreg
        /\ rpc \in {"scan", "evaluate", "return"}) =>
        /\ frame.regs = <<IF self[1].usepytorch THEN Pow(10, -9)
                          ELSE Pow(10, 9)>>
        /\ Len(frame.scores) <= 1
        /\ rpc \in {"evaluate", "return"} =>
              /\ Len(frame.scores) = 1
              /\ frame.optreg = Some(frame.regs[1])
        /\ rpc = "return" => frame.clf[1].l2reg = frame.regs[1]

\* a noreg run of the gradient-trained classifier about to return
C10_Witness ==
    /\ strategy = "SplitClassifier" /\ self[1].noreg
    /\ self[1].usepytorch
    /\ rpc = "return"
    /\ Len(frame.scores) = 1
    /\ frame.clf[1].l2reg = Pow(10, -9)

C10_WitnessSklearn ==
    /\ strategy = "SplitClassifier" /\ self[1].noreg
    /\ ~self[1].usepytorch
    /\ rpc = "return"
    /\ frame.clf[1].l2reg = Pow(10, 9)

(***************************************************************************)
(* C11: in every run of the three strategies no example of the test subset *)
(* (the outer test fold of the current outer iteration in                  *)
(* InnerKFoldClassifier, the supplied test set in the other two) is handed *)
(* to a fit call as training data or as early-stopping validation data,    *)
(* and none is scored for the table the regularization strength is chosen  *)
(* from.                                                                   *)
(***************************************************************************)
C11_TestSubsetHeldOut ==
    \A a \in fitlog :
        /\ a.fit.X \cap a.test = {}
        /\ a.fit.validation_data # None =>
              a.fit.validation_data[1] \cap a.test = {}
        /\ a.scored \cap a.test = {}

\* a finished nested run of the gradient-trained classifier: a candidate fit
\* with early-stopping data and a scored fold, and a fit of another outer
\* iteration that trains on what is the test fold of this one
C11_Witness ==
    /\ strategy = "InnerKFoldClassifier" /\ rpc = "done"
    /\ \E a, b \in fitlog :
          /\ a.test # {} /\ a.scored # {} /\ a.fit.X # {}
          /\ a.fit.validation_data # None
          /\ b.fit.X \cap a.test # {}
          /\ b.test # a.test

\* a finished run on a supplied test set: candidate fits and the final fit
C11_WitnessSupplied ==
    /\ strategy \in {"KFoldClassifier", "SplitClassifier"} /\ rpc = "done"
    /\ data.test # {}
    /\ \E a, b \in fitlog :
          /\ a.scored # {} /\ a.test = data.test
          /\ b.scored = {} /\ b.fit.X = data.train

(***************************************************************************)
(* one fit call                                                            *)
(***************************************************************************)
Init == FitInit /\ StratIdle

Next == FitNext

Spec == Init /\ [][Next]_vars

\* fit is sequential code: whenever a step is possible, it is taken.
FairSpec == Spec /\ WF_vars(Next)

(***************************************************************************)
(* Observations on the history of evaluation rounds                        *)
(***************************************************************************)
\* round i scored strictly more than every round before it
ImprovedAt(h, i) == \A j \in 1..(i - 1) : RatGT(h[i].acc, h[j].acc)

\* the accuracy strictly increases over rounds 1..E and no later round
\* improves on round E
Plateau(h, E) ==
    /\ E \in 1..Len(h)
    /\ \A i \in 1..E : ImprovedAt(h, i)
    /\ \A i \in (E + 1)..Len(h) : ~RatGT(h[i].acc, h[E].acc)

\* the last improving round (0 before the first round)
LastImproved(h) ==
    IF h = <<>> THEN 0
    ELSE CHOOSE i \in 1..Len(h) :
            ImprovedAt(h, i) /\ \A j \in (i + 1)..Len(h) : ~ImprovedAt(h, j)

\* consecutive non-improving rounds since the last improvement
Trailing(h) == Len(h) - LastImproved(h)

\* non-improving rounds in total
NonImproving(h) == Cardinality({i \in 1..Len(h) : ~ImprovedAt(h, i)})

\* the first round that reached the maximal accuracy
FirstMax(h) ==
    CHOOSE i \in 1..Len(h) :
        /\ \A j \in 1..Len(h) : ~RatGT(h[j].acc, h[i].acc)
        /\ \A j \in 1..(i - 1) : RatGT(h[i].acc, h[j].acc)

Ended == {"done", "AssertionError", "ZeroDivisionError", "UnboundLocalError"}

(***************************************************************************)
(* C1: with early_stop, if the validation accuracy strictly increases over *)
(* the first E rounds and no later round improves, training stops at round *)
(* E + tenacity (no round beyond it is run) and the model left in the      *)
(* trainer is the snapshot of round E.  Rounds started at or beyond the    *)
(* epoch cap are left out, so that only the early-stop rule is judged.     *)
(***************************************************************************)
C1_StopsAtEPlusTenacity ==
    (early_stop /\ tenacity >= 1 /\ nepoch - epoch_size < max_epoch) =>
        \A E \in 1..Len(hist) :
            Plateau(hist, E) =>
                /\ Len(hist) <= E + tenacity
                /\ pc = "done" => heap[model] = hist[E].w

\* what the code does instead: one more round, E + tenacity + 1 in all
C1_CodeStopsOneLater ==
    (early_stop /\ pc = "done" /\ stop_train) =>
        /\ NonImproving(hist) = tenacity + 1
        /\ \A E \in 1..Len(hist) :
              Plateau(hist, E) =>
                  Len(hist) = E + tenacity + 1 /\ heap[model] = hist[E].w

(***************************************************************************)
(* C2: every improving round resets the early-stop counter, so between     *)
(* rounds the counter equals the number of consecutive non-improving       *)
(* rounds since the last improvement, and training is stopped only after   *)
(* `tenacity` consecutive non-improving rounds.                            *)
(***************************************************************************)
C2_CounterIsConsecutive ==
    early_stop =>
        /\ pc = "while" => early_stop_count = Trailing(hist)
        /\ stop_train => Trailing(hist) >= tenacity

\* what the code does instead: the counter is never reset
C2_CodeCountsAll ==
    /\ pc = "while" =>
          early_stop_count = (IF early_stop THEN NonImproving(hist) ELSE 0)
    /\ stop_train => early_stop /\ NonImproving(hist) = tenacity + 1

(***************************************************************************)
(* C3: no trainepoch call is started once the completed-epoch count has    *)
(* reached max_epoch (stated for a cap of one epoch or more).              *)
(***************************************************************************)
C3_NoTrainAtCap ==
    (max_epoch >= 1 /\ pc = "trainepoch") => nepoch < max_epoch

\* what the code does instead: a call is still started at nepoch = max_epoch
C3_CodeCap == pc = "trainepoch" => nepoch <= max_epoch

(***************************************************************************)
(* C4: once a round has been evaluated, the snapshot holds the weights     *)
(* scored at the first round that reached the maximal accuracy, in every   *)
(* later state (training steps after the capture do not change it); when   *)
(* fit returns, the value returned is that maximal accuracy and the live   *)
(* model is that snapshot.                                                 *)
(***************************************************************************)
C4_BestSnapshot ==
    /\ hist # <<>> =>
          /\ bestmodel # None
          /\ heap[bestmodel[1]] = hist[FirstMax(hist)].w
          /\ bestaccuracy = hist[FirstMax(hist)].acc
    /\ pc = "done" =>
          /\ hist # <<>>
          /\ ret = Some(hist[FirstMax(hist)].acc)
          /\ \A j \in 1..Len(hist) : ~RatGT(hist[j].acc, ret[1])
          /\ heap[model] = hist[FirstMax(hist)].w

\* fit returned after three rounds or more, the best of which was neither
\* the last one nor the only one with its weights
C4_Witness ==
    /\ pc = "done"
    /\ Len(hist) >= 3
    /\ FirstMax(hist) < Len(hist)
    /\ FirstMax(hist) > 1
    /\ heap[model] # hist[Len(hist)].w

C5_WitnessFail ==
    /\ pc = "AssertionError"
    /\ validation_data = None /\ validation_split = Some(0)

(***************************************************************************)
(* C9: a fit call whose split arguments pass prepare_split comes to an end *)
(* (it returns when a non-empty validation set is held out and             *)
(* max_epoch >= 0); and whenever it returns, the epoch cap was passed or   *)
(* the early-stop rule fired, the latter only with early_stop enabled.     *)
(***************************************************************************)
ValidArgs == AssertSplitArgs(validation_split, validation_data)

HoldsOutSome ==
    IF validation_data # None THEN validation_data[1] # {}
    ELSE /\ validation_split # None
         /\ SplitLen(validation_split[1], Cardinality(X)) > 0

C9_FitTerminates ==
    /\ (pc = "fit" /\ ValidArgs) ~> (pc \in Ended)
    /\ (pc = "fit" /\ ValidArgs /\ HoldsOutSome /\ max_epoch >= 0)
          ~> (pc = "done")
    /\ [](pc = "done" =>
            /\ stop_train \/ nepoch > max_epoch
            /\ stop_train => early_stop
            /\ ~early_stop => nepoch > max_epoch)

\* fit returned by the early-stop rule below the cap, and (C9_WitnessCap)
\* by the cap with early stopping disabled
C9_Witness ==
    /\ pc = "done" /\ stop_train /\ early_stop /\ nepoch <= max_epoch
    /\ Len(hist) >= 2

C9_WitnessCap ==
    /\ pc = "done" /\ ~early_stop /\ nepoch > max_epoch /\ Len(hist) >= 2

=============================================================================
